---- MODULE Spec2Model ----
(***************************************************************************)
(* A model of NoritsuEZCCleaner (src/cleanup.py, with the older revision   *)
(* src/noritsu_cleanup.py where it differs): the batch locator             *)
(* find_all_image_dirs, the timestamp synthesizer fix_timestamps and the   *)
(* filename normalizer rename_images, driven by clean().                   *)
(*                                                                         *)
(* File names are strings; they are taken apart character by character,   *)
(* the way pathlib and the regular expression do it.  A path is the        *)
(* sequence of names below the search root (<<>> is the root itself).      *)
(***************************************************************************)
EXTENDS Integers, Sequences, FiniteSets, TLC

VARIABLES
    search_name,       \* self.search_path.name, the last component of the root
    search_is_dir,     \* self.search_path.is_dir()
    nodes,             \* the filesystem below the root: [path, kind, mtime]
    roll_padding,      \* self.roll_padding
    use_frame_names,   \* self.use_frame_names
    pc,                \* where clean() is: idle, dir, fix, rename, done
    runs,              \* how many times clean() was started
    found_dirs,        \* the list clean() iterates over
    dir_idx,           \* position of clean()'s loop in found_dirs
    listing,           \* sorted(images_dir.glob("*")) of the running loop
    file_idx,          \* position of the running loop in listing
    first_image_mtime, \* <<>> for None, <<t>> once set
    image_num,         \* fix_timestamps' counter
    roll_number,       \* <<>> for None, <<r>> once set
    start_nodes,       \* the filesystem as it was when clean() was called
    writer_faults,     \* how many calls the writer will yet fail in this fix_timestamps
    calls,             \* the set_tags calls of the running fix_timestamps, in order
    renames,           \* the renames done in the current directory, in order
    log                \* the errors clean() printed in this run, in order

vars == << search_name, search_is_dir, nodes, roll_padding, use_frame_names,
           pc, runs, found_dirs, dir_idx, listing, file_idx,
           first_image_mtime, image_num, roll_number, start_nodes,
           writer_faults, calls, renames, log >>

-----------------------------------------------------------------------------
(* Bounds of the model *)

\* How many image entries the first order directory holds at most.
MaxFiles == 3
\* How many calls of the metadata writer fail in one run at most.
MaxWriterFailures == 1
\* How many times clean() is run on the tree.
MaxRuns == 2
\* How deep below the root the trees given to the locator go.
MaxDepth == 2
\* How many files the one large directory holds.
MaxBigFiles == 1001

-----------------------------------------------------------------------------
(* Characters and strings *)

\* The characters that occur in the modelled names, in ASCII order.
Alphabet == "#.0123456789ABCDEFGHIJKLMNOPQRSTUVWXYZ_abcdefghijklmnopqrstuvwxyz"
Digits == "0123456789"
UpperCase == "ABCDEFGHIJKLMNOPQRSTUVWXYZ"
LowerCase == "abcdefghijklmnopqrstuvwxyz"

CharAt(s, i) == SubSeq(s, i, i)

\* The place of the character c in the string s, 0 when it is not there.
IndexIn(c, s) ==
    IF \E i \in 1..Len(s) : CharAt(s, i) = c
    THEN CHOOSE i \in 1..Len(s) : CharAt(s, i) = c
    ELSE 0

OrdTable == [c \in {CharAt(Alphabet, i) : i \in 1..Len(Alphabet)} |-> IndexIn(c, Alphabet)]
Ord(c) == OrdTable[c]
DigitSet == {CharAt(Digits, i) : i \in 1..Len(Digits)}
IsDigit(c) == c \in DigitSet
\* The value of a decimal digit.
DigitValue == [c \in DigitSet |-> IndexIn(c, Digits) - 1]

\* str.lower() on one character.
LowerTable ==
    [c \in {CharAt(Alphabet, i) : i \in 1..Len(Alphabet)} |->
        LET i == IndexIn(c, UpperCase)
        IN  IF i > 0 THEN CharAt(LowerCase, i) ELSE c]
LowerChar(c) == LowerTable[c]

RECURSIVE Lower(_)
Lower(s) ==
    IF Len(s) = 0 THEN ""
    ELSE LowerChar(SubSeq(s, 1, 1)) \o Lower(SubSeq(s, 2, Len(s)))

\* s < t as Python compares two str values.
RECURSIVE StrLessFrom(_, _, _)
StrLessFrom(s, t, i) ==
    IF i > Len(t) THEN FALSE
    ELSE IF i > Len(s) THEN TRUE
    ELSE IF CharAt(s, i) = CharAt(t, i) THEN StrLessFrom(s, t, i + 1)
         ELSE Ord(CharAt(s, i)) < Ord(CharAt(t, i))
StrLess(s, t) == StrLessFrom(s, t, 1)

\* p < q as pathlib compares two paths: part by part.
RECURSIVE PathLess(_, _)
PathLess(p, q) ==
    IF Len(q) = 0 THEN FALSE
    ELSE IF Len(p) = 0 THEN TRUE
    ELSE IF Head(p) = Head(q) THEN PathLess(Tail(p), Tail(q))
         ELSE StrLess(Head(p), Head(q))

\* sorted(): the elements of S as a sequence in increasing order.
RECURSIVE SortedNames(_)
SortedNames(S) ==
    IF S = {} THEN << >>
    ELSE LET m == CHOOSE x \in S : \A y \in S \ {x} : StrLess(x, y)
         IN  << m >> \o SortedNames(S \ {m})

RECURSIVE SortedPaths(_)
SortedPaths(S) ==
    IF S = {} THEN << >>
    ELSE LET m == CHOOSE x \in S : \A y \in S \ {x} : PathLess(x, y)
         IN  << m >> \o SortedPaths(S \ {m})

\* int() of a string of decimal digits.
RECURSIVE ToInt(_)
ToInt(s) ==
    IF Len(s) = 0 THEN 0
    ELSE 10 * ToInt(SubSeq(s, 1, Len(s) - 1)) + DigitValue[CharAt(s, Len(s))]

\* The decimal digits of n >= 0, as format(n, "d") writes them.
RECURSIVE Dec(_)
Dec(n) ==
    IF n < 10 THEN SubSeq(Digits, n + 1, n + 1)
    ELSE Dec(n \div 10) \o SubSeq(Digits, (n % 10) + 1, (n % 10) + 1)

RECURSIVE Zeros(_)
Zeros(k) == IF k <= 0 THEN "" ELSE "0" \o Zeros(k - 1)

\* f"{n:0>{w}d}": right-aligned in a field of at least w characters, filled
\* with "0"; a number with more than w digits is written in full.
ZeroPad(n, w) == Zeros(w - Len(Dec(n))) \o Dec(n)

-----------------------------------------------------------------------------
(* pathlib: PurePath.suffix and PurePath.stem *)

\* name.rfind("."), 1-based; 0 when there is no dot.
RECURSIVE LastDotFrom(_, _)
LastDotFrom(name, i) ==
    IF i = 0 THEN 0
    ELSE IF CharAt(name, i) = "." THEN i
    ELSE LastDotFrom(name, i - 1)
LastDot(name) == LastDotFrom(name, Len(name))

\* pathlib takes the last dot as the start of the suffix unless it is the
\* first or the last character of the name.
Suffix(name) ==
    LET d == LastDot(name)
    IN  IF 1 < d /\ d < Len(name) THEN SubSeq(name, d, Len(name)) ELSE ""
Stem(name) ==
    LET d == LastDot(name)
    IN  IF 1 < d /\ d < Len(name) THEN SubSeq(name, 1, d - 1) ELSE name

StartsWith(s, c) == Len(s) > 0 /\ SubSeq(s, 1, 1) = c

-----------------------------------------------------------------------------
(* The filesystem collaborator *)

Node(p, k, t) == [path |-> p, kind |-> k, mtime |-> t]

NameOf(p) == p[Len(p)]
ParentOf(p) == SubSeq(p, 1, Len(p) - 1)

\* What images_dir.glob("*") yields on the filesystem fs: every entry of the
\* directory, hidden ones and subdirectories included.
ChildrenIn(fs, dir) == {n \in fs : Len(n.path) = Len(dir) + 1 /\ ParentOf(n.path) = dir}
ChildNamesIn(fs, dir) == {NameOf(n.path) : n \in ChildrenIn(fs, dir)}

Exists(p) == \E n \in nodes : n.path = p
NodeAt(p) == CHOOSE n \in nodes : n.path = p
IsFile(p) == Exists(p) /\ NodeAt(p).kind = "file"
IsDir(p) == IF p = << >> THEN search_is_dir ELSE Exists(p) /\ NodeAt(p).kind = "dir"

-----------------------------------------------------------------------------
(* The batch locator: find_all_image_dirs *)

AllDigits(s) == \A i \in 1..Len(s) : IsDigit(CharAt(s, i))

\* fnmatch of a name against IMAGE_DIR_GLOB_PATTERN, "[0-9]" * 8: the glob
\* matches the whole name.
GlobMatchesImageDir(name) == Len(name) = 8 /\ AllDigits(name)

\* re.match(IMAGE_DIR_GLOB_PATTERN, name): the pattern read as a regular
\* expression and matched at the start of the name, with nothing anchoring
\* its end.
ReMatchImageDir(name) == Len(name) >= 8 /\ AllDigits(SubSeq(name, 1, 8))

\* search_path.glob("**/" + IMAGE_DIR_GLOB_PATTERN): "**" walks the root and
\* every directory below it, the last component is matched against the
\* entries of each such directory, files as well as directories.
GlobImageDirs ==
    IF search_is_dir
    THEN {n.path : n \in {m \in nodes : GlobMatchesImageDir(NameOf(m.path))}}
    ELSE {}

RootFound ==
    IF search_is_dir /\ ReMatchImageDir(search_name) THEN << << >> >> ELSE << >>

find_all_image_dirs == RootFound \o SortedPaths(GlobImageDirs)

-----------------------------------------------------------------------------
(* IMAGE_NAME_PATTERN and image_name_matcher.match *)

\* re.match anchors the pattern at the start of the stem only: twelve digits,
\* then the optional group; whatever follows a stem that has no "_" in
\* thirteenth place is left unmatched and the match still succeeds.
MatchOk(stem) == Len(stem) >= 12 /\ AllDigits(SubSeq(stem, 1, 12))
GroupRollNumber(stem) == SubSeq(stem, 1, 8)
GroupFrameNumber(stem) == SubSeq(stem, 9, 12)
\* match.group("frame_name"): << >> stands for None.
GroupFrameName(stem) ==
    IF Len(stem) >= 13 /\ SubSeq(stem, 13, 13) = "_"
    THEN << SubSeq(stem, 14, Len(stem)) >>
    ELSE << >>

\* The filter both loops apply to an entry of the listing.
IsImageSuffix(name) == Lower(Suffix(name)) \in {".jpg", ".tif"}
IsHidden(name) == StartsWith(Stem(name), ".")
Qualifies(dir, name) ==
    /\ IsImageSuffix(name)
    /\ ~IsHidden(name)
    /\ IsFile(dir \o << name >>)

-----------------------------------------------------------------------------
(* clean(): one directory after the other, fix_timestamps then               *)
(* rename_images, a ValueError ending the directory only.                    *)

CurDir == found_dirs[dir_idx]
CurName == listing[file_idx]
CurPath == CurDir \o << CurName >>

\* strftime(EXIF_DATETIME_STR_FORMAT) of datetime.fromtimestamp(t): the
\* modification time t, kept in milliseconds, is written to the second.
FormatDateTime(t) == t \div 1000

\* What the metadata writer can answer: the expected acknowledgment, another
\* message, or an ExifToolExecuteError.  The writer is an external tool: the
\* model records what it is called with and what it answers, and leaves what
\* it does to the file (its content, its modification time) out.
WriterOutcomes == {"ok", "bad_ack", "exec_error"}

\* delete_thm_files and delete_infohd_file on the directory dir.
IsThmName(name) == Len(name) >= 4 /\ SubSeq(name, Len(name) - 3, Len(name)) = ".thm"
AfterDeletes(dir) ==
    {n \in nodes :
        ~ /\ n.kind = "file"
          /\ Len(n.path) = Len(dir) + 1
          /\ ParentOf(n.path) = dir
          /\ (IsThmName(NameOf(n.path)) \/ NameOf(n.path) = "Info_HD.txt")}

\* What clean() prints for a ValueError; the listing of the loop that raised
\* and the names the directory held at that moment are kept with it.
LogEntry(kind) ==
    [dir |-> CurDir, file |-> CurName, error |-> kind,
     listing |-> listing, names |-> ChildNamesIn(nodes, CurDir)]

\* A ValueError leaves the loop and the method; the except clause of clean()
\* prints it and clean() goes on with the next directory.
RaiseSkipsFile(kind) ==
    /\ log' = Append(log, LogEntry(kind))
    /\ file_idx' = file_idx + 1
    /\ UNCHANGED << dir_idx, pc >>
RaiseEndsRun(kind) ==
    /\ log' = Append(log, LogEntry(kind))
    /\ dir_idx' = Len(found_dirs) + 1
    /\ pc' = "dir"
    /\ UNCHANGED file_idx
Raise(kind) ==
    /\ log' = Append(log, LogEntry(kind))
    /\ dir_idx' = dir_idx + 1
    /\ pc' = "dir"
    /\ UNCHANGED file_idx

\* clean() is called: the locator runs once, before any directory is touched.
Clean ==
    /\ \/ pc = "idle"
       \/ pc = "done" /\ runs < MaxRuns
    /\ runs' = runs + 1
    /\ found_dirs' = find_all_image_dirs
    /\ dir_idx' = 1
    /\ pc' = "dir"
    /\ listing' = << >>
    /\ file_idx' = 1
    /\ first_image_mtime' = << >>
    /\ image_num' = 0
    /\ roll_number' = << >>
    /\ writer_faults' = 0
    /\ calls' = << >>
    /\ renames' = << >>
    /\ log' = << >>
    /\ start_nodes' = nodes
    /\ UNCHANGED << search_name, search_is_dir, nodes, roll_padding,
                    use_frame_names >>

\* The next directory: the stray files are deleted and fix_timestamps starts.
EnterDir ==
    /\ pc = "dir"
    /\ dir_idx <= Len(found_dirs)
    /\ nodes' = AfterDeletes(CurDir)
    /\ listing' = SortedNames(ChildNamesIn(nodes', CurDir))
    /\ file_idx' = 1
    /\ first_image_mtime' = << >>
    /\ image_num' = 0
    /\ writer_faults' = MaxWriterFailures
    /\ calls' = << >>
    /\ renames' = << >>
    /\ pc' = "fix"
    /\ UNCHANGED << search_name, search_is_dir, roll_padding, use_frame_names,
                    runs, found_dirs, dir_idx, roll_number, start_nodes, log >>

\* "There's 3 decimal places for the milliseconds, so zero-pad to 3".
SubSecWidth == 3

\* first_image_mtime after the "if not first_image_mtime" of an iteration on
\* the file at path p: set from the first file that gets there, kept after.
OwnMtime(p) == << NodeAt(p).mtime >>
FirstImageMtime(p) ==
    IF first_image_mtime = << >> THEN << NodeAt(p).mtime >> ELSE first_image_mtime

\* subsec_time_original and subsec_time_digitized for the counter value num.
SubSecOfCounter(num) == ZeroPad(num, SubSecWidth)
SubSecTime(num) == ZeroPad(num - 1, SubSecWidth)

\* tags_to_write
TagsToWrite(first, num) ==
    [DateTimeOriginal |-> FormatDateTime(first[1]),
     DateTimeDigitized |-> FormatDateTime(first[1]),
     SubSecTimeOriginal |-> SubSecTime(num),
     SubSecTimeDigitized |-> SubSecTime(num)]

\* Does the writer's answer end the directory ?  Neither failure does: the
\* ExifToolExecuteError is caught and printed, the other message is printed.
WriterAbortsOnError(outcome) == outcome = "exec_error"
WriterAborts(outcome) == FALSE

\* One iteration of the loop of fix_timestamps.
FixFile ==
    /\ pc = "fix"
    /\ file_idx <= Len(listing)
    /\ IF ~Qualifies(CurDir, CurName)
       THEN /\ file_idx' = file_idx + 1
            /\ UNCHANGED << nodes, first_image_mtime, image_num, writer_faults,
                            calls, log, dir_idx, pc >>
       ELSE IF ~MatchOk(Stem(CurName))
       THEN /\ Raise("format")
            /\ UNCHANGED << nodes, first_image_mtime, image_num, writer_faults,
                            calls >>
       ELSE LET num == image_num + 1
                first == FirstImageMtime(CurPath)
            IN  \E outcome \in WriterOutcomes :
                  /\ outcome # "ok" => writer_faults > 0
                  /\ writer_faults' = IF outcome = "ok" THEN writer_faults
                                      ELSE writer_faults - 1
                  /\ image_num' = num
                  /\ first_image_mtime' = first
                  /\ calls' = Append(calls, [dir |-> CurDir, file |-> CurName,
                                             tags |-> TagsToWrite(first, num),
                                             outcome |-> outcome])
                  /\ IF WriterAborts(outcome)
                     THEN Raise("writer")
                     ELSE /\ file_idx' = file_idx + 1
                          /\ UNCHANGED << log, dir_idx, pc >>
                  /\ UNCHANGED nodes
    /\ UNCHANGED << search_name, search_is_dir, roll_padding, use_frame_names,
                    runs, found_dirs, listing, roll_number, start_nodes, renames >>

\* fix_timestamps returns and rename_images starts on a fresh listing.
FixEnd ==
    /\ pc = "fix"
    /\ file_idx > Len(listing)
    /\ roll_number' = << >>
    /\ listing' = SortedNames(ChildNamesIn(nodes, CurDir))
    /\ file_idx' = 1
    /\ writer_faults' = 0
    /\ calls' = << >>
    /\ pc' = "rename"
    /\ UNCHANGED << search_name, search_is_dir, nodes, roll_padding,
                    use_frame_names, runs, found_dirs, dir_idx,
                    first_image_mtime, image_num, start_nodes, renames, log >>

\* The frame number is padded to this many places.
FrameWidth == 2

\* The frame part of the new name; << >> when the frame name is required and
\* missing.
FramePart(stem) ==
    IF use_frame_names
    THEN IF GroupFrameName(stem) = << >> \/ GroupFrameName(stem) = << "" >>
         THEN << >>
         ELSE GroupFrameName(stem)
    ELSE << ZeroPad(ToInt(GroupFrameNumber(stem)), FrameWidth) >>

\* formatted_roll_number: the roll number as an integer, so without its
\* leading zeros, then padded to roll_padding places.
FormattedRollNumberRaw(roll) == roll
FormattedRollNumber(roll) == ZeroPad(ToInt(roll), roll_padding)

\* new_filename with the suffix.
NewNameReparsable(roll, frame, suffix) == roll \o "0001_F" \o frame \o suffix
NewName(roll, frame, suffix) == "R" \o FormattedRollNumber(roll) \o "F" \o frame \o suffix

\* image_path.rename(new_filepath): the file takes the new name, and a file
\* that had that name is replaced.
AfterRename(src, dst) ==
    {n \in nodes : n.path # src /\ n.path # dst}
        \cup {Node(dst, "file", NodeAt(src).mtime)}

\* The file's roll number is not the one the loop has kept from the first
\* file it parsed.
RollMismatchNever(stem) == FALSE
RollMismatch(stem) ==
    roll_number # << >> /\ roll_number[1] # GroupRollNumber(stem)

\* One iteration of the loop of rename_images.
RenameFile ==
    /\ pc = "rename"
    /\ file_idx <= Len(listing)
    /\ IF ~Qualifies(CurDir, CurName)
       THEN /\ file_idx' = file_idx + 1
            /\ UNCHANGED << nodes, roll_number, renames, log, dir_idx, pc >>
       ELSE IF ~MatchOk(Stem(CurName))
       THEN /\ Raise("format")
            /\ UNCHANGED << nodes, roll_number, renames >>
       ELSE IF RollMismatch(Stem(CurName))
       THEN /\ Raise("roll_number")
            /\ UNCHANGED << nodes, roll_number, renames >>
       ELSE LET roll == IF roll_number = << >>
                        THEN GroupRollNumber(Stem(CurName))
                        ELSE roll_number[1]
                frame == FramePart(Stem(CurName))
            IN  IF frame = << >>
                THEN /\ Raise("frame_name")
                     /\ roll_number' = << roll >>
                     /\ UNCHANGED << nodes, renames >>
                ELSE LET new == NewName(roll, frame[1], Suffix(CurName))
                     IN  IF IsDir(CurDir \o << new >>)
                         THEN \* rename onto a directory: an OSError, which
                              \* clean() does not catch
                              /\ pc' = "crashed"
                              /\ roll_number' = << roll >>
                              /\ UNCHANGED << nodes, renames, log, dir_idx, file_idx >>
                         ELSE /\ nodes' = AfterRename(CurPath, CurDir \o << new >>)
                              /\ renames' = Append(renames,
                                     [dir |-> CurDir, old |-> CurName, new |-> new])
                              /\ roll_number' = << roll >>
                              /\ file_idx' = file_idx + 1
                              /\ UNCHANGED << log, dir_idx, pc >>
    /\ UNCHANGED << search_name, search_is_dir, roll_padding, use_frame_names,
                    runs, found_dirs, listing, first_image_mtime, image_num,
                    start_nodes, writer_faults, calls >>

\* rename_images returns: the directory is done.
RenameEnd ==
    /\ pc = "rename"
    /\ file_idx > Len(listing)
    /\ dir_idx' = dir_idx + 1
    /\ pc' = "dir"
    /\ UNCHANGED << search_name, search_is_dir, nodes, roll_padding,
                    use_frame_names, runs, found_dirs, listing, file_idx,
                    first_image_mtime, image_num, roll_number, start_nodes,
                    writer_faults, calls, renames, log >>

\* The loop of clean() is over.
Finish ==
    /\ pc = "dir"
    /\ dir_idx > Len(found_dirs)
    /\ pc' = "done"
    /\ UNCHANGED << search_name, search_is_dir, nodes, roll_padding,
                    use_frame_names, runs, found_dirs, dir_idx, listing, file_idx,
                    first_image_mtime, image_num, roll_number, start_nodes,
                    writer_faults, calls, renames, log >>

Next == Clean \/ EnterDir \/ FixFile \/ FixEnd \/ RenameFile \/ RenameEnd \/ Finish

-----------------------------------------------------------------------------
(* The scanned tree clean() is run on: a date directory holding two order    *)
(* directories.                                                              *)

RootName == "20211226"
Order1 == << "00007466" >>
Order2 == << "00007467" >>

\* The entries the first order directory may hold, each with its kind and
\* its modification time in milliseconds.  The scanner does not write the
\* frames in order, so the times do not follow the names.
Order1Entries ==
    { Node(Order1 \o << "000074660001_00.jpg" >>, "file", 5400),
      Node(Order1 \o << "000074660002_E.jpg" >>, "file", 3200),
      Node(Order1 \o << "000074660003.tif" >>, "file", 7100),
      Node(Order1 \o << "000074660001abc.jpg" >>, "file", 2900),
      Node(Order1 \o << "999974660002_0.jpg" >>, "file", 4300),
      Node(Order1 \o << "999974660003_1.JPG" >>, "file", 6600),
      Node(Order1 \o << "abc123.jpg" >>, "file", 1800),
      Node(Order1 \o << "._000074660001_00.jpg" >>, "file", 1200),
      Node(Order1 \o << "000074660009_X.jpg" >>, "dir", 0) }

\* What the scanner leaves in every order directory besides the images.
StrayEntries(dir) ==
    { Node(dir \o << "Info_HD.txt" >>, "file", 1100),
      Node(dir \o << "000074660001.thm" >>, "file", 1300) }

Order2Entries ==
    { Node(Order2 \o << "000074670001_A.jpg" >>, "file", 8800),
      Node(Order2 \o << "000074670002_B.tif" >>, "file", 8200) }

Init ==
    /\ search_name = RootName
    /\ search_is_dir = TRUE
    /\ \E S \in SUBSET Order1Entries :
          /\ Cardinality(S) <= MaxFiles
          /\ nodes = { Node(Order1, "dir", 0), Node(Order2, "dir", 0) }
                        \cup S \cup StrayEntries(Order1) \cup Order2Entries
    /\ roll_padding \in {4, 6}
    /\ use_frame_names \in BOOLEAN
    /\ pc = "idle"
    /\ runs = 0
    /\ found_dirs = << >>
    /\ dir_idx = 1
    /\ listing = << >>
    /\ file_idx = 1
    /\ first_image_mtime = << >>
    /\ image_num = 0
    /\ roll_number = << >>
    /\ start_nodes = nodes
    /\ writer_faults = 0
    /\ calls = << >>
    /\ renames = << >>
    /\ log = << >>

Spec == Init /\ [][Next]_vars

-----------------------------------------------------------------------------
(* The locator alone, on trees of every shape: a root of any name, regular   *)
(* files and directories of matching and non-matching names below it.        *)

LocRootNames == {"20211226", "202112261", "2021122"}
LocNames == {"00007466", "00007467", "000074661", "0000746a"}

RECURSIVE PathsOfDepth(_)
PathsOfDepth(d) ==
    IF d = 0 THEN { << >> }
    ELSE {p \o << a >> : p \in PathsOfDepth(d - 1), a \in LocNames}

\* Every path of at most MaxDepth names; << >> stands for "no entry".
LocPaths == UNION {PathsOfDepth(d) : d \in 0..MaxDepth}

\* The directories above p.
AncestorsOf(p) == {SubSeq(p, 1, k) : k \in 1..(Len(p) - 1)}

\* The tree that holds the entries p and q, of kinds kp and kq, and the
\* directories above them.
TreeOf(p, kp, q, kq) ==
    LET inner == AncestorsOf(p) \cup AncestorsOf(q)
        leaves == ({p} \ inner) \ {<< >>}
    IN  {Node(d, "dir", 0) : d \in inner}
          \cup {Node(l, kp, 0) : l \in leaves}
          \cup (IF q \in inner \cup leaves \cup {<< >>} THEN {} ELSE {Node(q, kq, 0)})

InitLoc ==
    /\ search_name \in LocRootNames
    /\ search_is_dir \in BOOLEAN
    /\ \E p \in LocPaths, q \in LocPaths, kp \in {"dir", "file"}, kq \in {"dir", "file"} :
          nodes = IF search_is_dir THEN TreeOf(p, kp, q, kq) ELSE {}
    /\ roll_padding = 4
    /\ use_frame_names = FALSE
    /\ pc = "idle"
    /\ runs = 0
    /\ found_dirs = << >>
    /\ dir_idx = 1
    /\ listing = << >>
    /\ file_idx = 1
    /\ first_image_mtime = << >>
    /\ image_num = 0
    /\ roll_number = << >>
    /\ start_nodes = nodes
    /\ writer_faults = 0
    /\ calls = << >>
    /\ renames = << >>
    /\ log = << >>

SpecLoc == InitLoc /\ [][Clean]_vars

-----------------------------------------------------------------------------
(* fix_timestamps alone, on one order directory of MaxBigFiles images, the   *)
(* listing sorted as the loop gets it, the writer answering every call with  *)
(* the expected message.  The loop is taken up where it starts and also      *)
(* where it stands when the subsecond field is about to run out of digits;   *)
(* the second state is one the first leads to (CallsAfter rebuilds its log). *)

BigDir == << "00007466" >>
\* The i-th frame of the roll; the names sort by i up to 9999 frames.
BigName(i) == "00007466" \o ZeroPad(i, 4) \o "_" \o Dec(i % 10) \o ".jpg"
BigNodes ==
    {Node(BigDir, "dir", 0)}
        \cup {Node(BigDir \o << BigName(i) >>, "file", 4000 + i) : i \in 1..MaxBigFiles}

\* How many values a subsecond field of SubSecWidth digits tells apart.
RECURSIVE TenToThe(_)
TenToThe(k) == IF k = 0 THEN 1 ELSE 10 * TenToThe(k - 1)
SubSecCapacity == TenToThe(SubSecWidth)

\* The calls the loop has made once it has passed k files of the directory.
BigFirstMtime == << 4001 >>
CallsAfter(k) ==
    [i \in 1..k |-> [dir |-> BigDir, file |-> BigName(i),
                     tags |-> TagsToWrite(BigFirstMtime, i), outcome |-> "ok"]]

InitTS ==
    /\ search_name = RootName
    /\ search_is_dir = TRUE
    /\ nodes = BigNodes
    /\ roll_padding = 4
    /\ use_frame_names = FALSE
    /\ pc = "fix"
    /\ runs = 1
    /\ found_dirs = << << >>, BigDir >>
    /\ dir_idx = 2
    /\ listing = [i \in 1..MaxBigFiles |-> BigName(i)]
    /\ image_num \in {0, SubSecCapacity - 2}
    /\ file_idx = image_num + 1
    /\ first_image_mtime = IF image_num = 0 THEN << >> ELSE BigFirstMtime
    /\ roll_number = << >>
    /\ start_nodes = nodes
    /\ writer_faults = 0
    /\ calls = CallsAfter(image_num)
    /\ renames = << >>
    /\ log = << >>

SpecTS == InitTS /\ [][FixFile]_vars

-----------------------------------------------------------------------------
(* The vocabulary of the properties: what the specification calls a          *)
(* qualifying file, read off a filesystem without the program's state.       *)

ImageSuffixes == {".jpg", ".tif"}

\* A regular file with an image extension (whatever its case) whose name does
\* not begin with the hidden-file marker.
IsQualifyingIn(fs, dir, name) ==
    /\ \E n \in fs : n.path = dir \o << name >> /\ n.kind = "file"
    /\ Lower(Suffix(name)) \in ImageSuffixes
    /\ ~StartsWith(name, ".")

\* The qualifying files of a directory in sorted listing order.
QualifyingSeq(fs, dir) ==
    SelectSeq(SortedNames(ChildNamesIn(fs, dir)),
              LAMBDA x : IsQualifyingIn(fs, dir, x))

MtimeIn(fs, p) == (CHOOSE n \in fs : n.path = p).mtime

\* The stem is of the expected form in full: 8 digits, 4 digits, and then
\* either nothing or "_" and a frame name.
WellFormedStem(stem) ==
    /\ Len(stem) >= 12
    /\ AllDigits(SubSeq(stem, 1, 12))
    /\ Len(stem) > 12 => CharAt(stem, 13) = "_"

-----------------------------------------------------------------------------
(* Properties *)

\* C1: while fix_timestamps runs on a directory, its i-th call of the writer
\* is for the i-th qualifying file of the directory in sorted listing order;
\* both datetime tags are the modification time of the first qualifying file
\* of that directory, both subsecond tags are i-1 written with three digits;
\* and when the loop is through, every qualifying file has had its call.
C1_TagsFollowListing ==
    pc = "fix" =>
        LET imgs == QualifyingSeq(start_nodes, CurDir)
        IN  /\ Len(calls) <= Len(imgs)
            /\ image_num = Len(calls)
            /\ \A i \in 1..Len(calls) :
                 LET base == FormatDateTime(MtimeIn(start_nodes, CurDir \o << imgs[1] >>))
                     t == calls[i].tags
                 IN  /\ calls[i].file = imgs[i]
                     /\ t.DateTimeOriginal = base
                     /\ t.DateTimeDigitized = base
                     /\ Len(t.SubSecTimeOriginal) = 3
                     /\ AllDigits(t.SubSecTimeOriginal)
                     /\ ToInt(t.SubSecTimeOriginal) = i - 1
                     /\ t.SubSecTimeDigitized = t.SubSecTimeOriginal
            /\ file_idx > Len(listing) => Len(calls) = Len(imgs)

\* C1 happens: a directory of three qualifying files, whose first file does
\* not carry the earliest modification time, has been tagged to its end, the
\* third file with the first file's second and the subsecond 002.
C1_Witness ==
    /\ pc = "fix"
    /\ file_idx > Len(listing)
    /\ Len(calls) = 3
    /\ calls[1].file = "000074660001_00.jpg"
    /\ calls[2].file = "000074660002_E.jpg"
    /\ calls[3].tags.SubSecTimeOriginal = "002"
    /\ calls[3].tags.DateTimeOriginal = 5

\* The name rename_images builds, read off the old name: "R", the roll number
\* as an integer padded to roll_padding places, "F", the frame number padded
\* to two places or the frame name, and the old extension.
CanonicalOf(old) ==
    LET stem == Stem(old)
    IN  "R" \o ZeroPad(ToInt(SubSeq(stem, 1, 8)), roll_padding)
            \o "F"
            \o (IF use_frame_names
                THEN SubSeq(stem, 14, Len(stem))
                ELSE ZeroPad(ToInt(SubSeq(stem, 9, 12)), 2))
            \o Suffix(old)

RenamesAreCanonical ==
    \A i \in 1..Len(renames) :
        /\ renames[i].new = CanonicalOf(renames[i].old)
        /\ IsFile(renames[i].dir \o << renames[i].new >>)
        /\ ~Exists(renames[i].dir \o << renames[i].old >>)

\* C2 (as amended): every renamed file is named R{roll}F{frame}{ext}, the roll
\* number written as an integer (its leading zeros dropped) and padded to
\* roll_padding places; with roll_padding = 4, 000074660001_00.jpg becomes
\* R7466F01.jpg in frame-numbering mode and 000074660002_E.jpg becomes
\* R7466FE.jpg in frame-name mode.
C2_CanonicalNames ==
    /\ RenamesAreCanonical
    /\ \A i \in 1..Len(renames) :
        /\ (roll_padding = 4 /\ ~use_frame_names
                /\ renames[i].old = "000074660001_00.jpg")
            => renames[i].new = "R7466F01.jpg"
        /\ (roll_padding = 4 /\ use_frame_names
                /\ renames[i].old = "000074660002_E.jpg")
            => renames[i].new = "R7466FE.jpg"

\* C2 as the specification states it: the same, with the two examples named
\* R0007466F01.jpg and R0007466FE.jpg.
C2_AsStated ==
    /\ RenamesAreCanonical
    /\ \A i \in 1..Len(renames) :
        /\ (roll_padding = 4 /\ ~use_frame_names
                /\ renames[i].old = "000074660001_00.jpg")
            => renames[i].new = "R0007466F01.jpg"
        /\ (roll_padding = 4 /\ use_frame_names
                /\ renames[i].old = "000074660002_E.jpg")
            => renames[i].new = "R0007466FE.jpg"

\* C2 happens: with roll_padding = 4 and frame numbering, the example file
\* has been renamed, and a second file after it.
C2_Witness ==
    /\ roll_padding = 4
    /\ ~use_frame_names
    /\ Len(renames) = 2
    /\ renames[1].old = "000074660001_00.jpg"
    /\ renames[2].old = "000074660002_E.jpg"
    /\ renames[2].new = "R7466F02.jpg"

\* The directories at or below the root, the root included.
DirPaths ==
    (IF search_is_dir THEN { << >> } ELSE {})
        \cup {n.path : n \in {m \in nodes : m.kind = "dir"}}
PathName(p) == IF p = << >> THEN search_name ELSE NameOf(p)
IsEightDigits(name) == Len(name) = 8 /\ AllDigits(name)

\* C3: find_all_image_dirs returns exactly the directories at or below the
\* root, the root included, whose name is exactly 8 digits, each once, in
\* lexicographic path order.
C3_LocatorExact ==
    pc = "dir" =>
        /\ {found_dirs[i] : i \in 1..Len(found_dirs)}
              = {p \in DirPaths : IsEightDigits(PathName(p))}
        /\ \A i, j \in 1..Len(found_dirs) :
              i < j => PathLess(found_dirs[i], found_dirs[j])

\* C4: no qualifying file whose whole stem is not 8 digits, 4 digits and an
\* optional "_" with a frame name is accepted: none is handed to the writer
\* and none is renamed.
C4_OnlyWellFormedStemsAccepted ==
    /\ \A i \in 1..Len(calls) : WellFormedStem(Stem(calls[i].file))
    /\ \A i \in 1..Len(renames) : WellFormedStem(Stem(renames[i].old))

BeginsWithTwelveDigits(stem) == Len(stem) >= 12 /\ AllDigits(SubSeq(stem, 1, 12))
StrayNames == {"Info_HD.txt", "000074660001.thm"}
FoundDirSet == {found_dirs[i] : i \in 1..Len(found_dirs)}
LogSet == {log[i] : i \in 1..Len(log)}
IndexOfDir(d) == CHOOSE i \in 1..Len(found_dirs) : found_dirs[i] = d
IndexInSeq(x, q) == CHOOSE i \in 1..Len(q) : q[i] = x
RollOf(name) == SubSeq(name, 1, 8)

C6_RollBaseline ==
    /\ pc = "rename" =>
          LET q == QualifyingSeq(start_nodes, CurDir)
          IN  /\ roll_number # << >> => roll_number[1] = RollOf(q[1])
              /\ \A i \in 1..Len(renames) : RollOf(renames[i].old) = RollOf(q[1])
              /\ file_idx > Len(listing) =>
                    \A j \in 1..Len(q) : RollOf(q[j]) = RollOf(q[1])
    /\ \A e \in LogSet :
          e.error = "roll_number" =>
              LET q == QualifyingSeq(start_nodes, e.dir)
                  k == IndexInSeq(e.file, q)
              IN  /\ k > 1
                  /\ RollOf(q[k]) # RollOf(q[1])
                  /\ \A j \in 1..(k - 1) : RollOf(q[j]) = RollOf(q[1])
                  /\ \A j \in k..Len(q) : q[j] \in ChildNamesIn(nodes, e.dir)

\* C6 happens: 000074660001_00.jpg was renamed, 999974660002_0.jpg raised the
\* error, and the file listed after it is still there under its name.
C6_Witness ==
    /\ pc = "done"
    /\ runs = 1
    /\ \E e \in LogSet :
          /\ e.dir = Order1
          /\ e.error = "roll_number"
          /\ e.file = "999974660002_0.jpg"
          /\ "000074660001_00.jpg" \in ChildNamesIn(start_nodes, Order1)
    /\ "000074660001_00.jpg" \notin ChildNamesIn(nodes, Order1)
    /\ {"999974660002_0.jpg", "999974660003_1.JPG"} \subseteq ChildNamesIn(nodes, Order1)

\* C7: a failed call of the writer, whichever way it fails, ends nothing: no
\* error is raised for it, and while fix_timestamps runs every qualifying
\* file the loop has passed, the ones after the failure included, has had
\* exactly one call, with the subsecond value of its own place in the listing.
C7_WriterFailureOnlyReported ==
    /\ \A e \in LogSet : e.error \in {"format", "roll_number", "frame_name"}
    /\ (pc = "fix" /\ \E k \in 1..Len(calls) : calls[k].outcome # "ok") =>
          LET q == QualifyingSeq(start_nodes, CurDir)
              passed == {listing[i] : i \in 1..(file_idx - 1)}
          IN  /\ \A j \in 1..Len(q) :
                    q[j] \in passed =>
                        /\ Cardinality({i \in 1..Len(calls) : calls[i].file = q[j]}) = 1
                        /\ ToInt(calls[j].tags.SubSecTimeOriginal) = j - 1
                        /\ calls[j].file = q[j]
              /\ image_num = Cardinality({j \in 1..Len(q) : q[j] \in passed})

\* C7 happens: the writer answered the first of three files with another
\* message than the expected one, and the third file got the subsecond 002.
C7_Witness ==
    /\ pc = "fix"
    /\ Len(calls) = 3
    /\ calls[1].outcome = "bad_ack"
    /\ calls[2].outcome = "ok"
    /\ calls[3].outcome = "ok"
    /\ calls[3].tags.SubSecTimeOriginal = "002"

\* The names a directory holds once it has been processed in full, read off
\* what it held when clean() was called: the stray files gone, every
\* qualifying file under its canonical name, the rest as it was.
ProcessedNames(d) ==
    {CanonicalOf(f) : f \in {g \in ChildNamesIn(start_nodes, d) :
                                IsQualifyingIn(start_nodes, d, g)}}
        \cup {g \in ChildNamesIn(start_nodes, d) :
                ~IsQualifyingIn(start_nodes, d, g) /\ g \notin StrayNames}

FailedBefore(d) ==
    \E e \in LogSet : IndexOfDir(e.dir) < IndexOfDir(d)
HasFailed(d) == \E e \in LogSet : e.dir = d

\* C8: after a directory has failed with any of the three validation errors,
\* a directory that comes later in the locator's sequence is processed as if
\* nothing had happened: fix_timestamps counts its files from 0 and takes
\* the time of its own first file, and when the run is over its files carry
\* their canonical names.
C8_LaterDirectoriesProcessed ==
    /\ (pc = "fix" /\ FailedBefore(CurDir)) =>
          LET q == QualifyingSeq(start_nodes, CurDir)
          IN  /\ image_num = Len(calls)
              /\ \A i \in 1..Len(calls) :
                    /\ calls[i].file = q[i]
                    /\ calls[i].tags.SubSecTimeOriginal = ZeroPad(i - 1, 3)
                    /\ calls[i].tags.DateTimeOriginal
                          = FormatDateTime(MtimeIn(start_nodes, CurDir \o << q[1] >>))
    /\ pc = "done" =>
          \A d \in FoundDirSet :
              (FailedBefore(d) /\ ~HasFailed(d)) =>
                  ChildNamesIn(nodes, d) = ProcessedNames(d)

\* C8 happens: the first order directory failed for a missing frame name and
\* the second one has been tagged and renamed.
C8_Witness ==
    /\ pc = "done"
    /\ Len(log) = 1
    /\ log[1].dir = Order1
    /\ log[1].error = "frame_name"
    /\ ChildNamesIn(nodes, Order2) = {"R7467FA.jpg", "R7467FB.tif"}

\* The roll numbers of the modelled trees.  A name is canonical when the
\* normalizer makes it of one of them, of some frame identifier and of the
\* name's own extension.
KnownRolls == {"00007466", "99997466", "00007467"}
IsCanonicalName(name) ==
    \E r \in KnownRolls :
        LET lead == Len(NewName(r, "", ""))
            stem == Stem(name)
        IN  /\ Len(stem) > lead
            /\ name = NewName(r, SubSeq(stem, lead + 1, Len(stem)), Suffix(name))
AllCanonical(fs, d) ==
    /\ \E f \in ChildNamesIn(fs, d) : IsQualifyingIn(fs, d, f)
    /\ \A f \in ChildNamesIn(fs, d) :
          IsQualifyingIn(fs, d, f) => IsCanonicalName(f)

\* C9: when clean() is run again on a directory whose qualifying files all
\* carry the canonical names a first run gave them, every name in the
\* directory stays as the first run left it.
C9_SecondRunKeepsNames ==
    runs >= 2 =>
        \A d \in FoundDirSet :
            \/ ChildNamesIn(nodes, d) = ChildNamesIn(start_nodes, d)
            \/ ~AllCanonical(start_nodes, d)

\* C9 happens: the second run is over on a directory the first run had
\* renamed in full.
C9_Witness ==
    /\ runs = 2
    /\ pc = "done"
    /\ AllCanonical(start_nodes, Order1)
    /\ {"R7466F01.jpg", "R7466F02.jpg"} \subseteq ChildNamesIn(nodes, Order1)

\* The capture time of the i-th call comes before the one of the j-th: by
\* the datetime field, then by the subsecond field as it is written.
CaptureBefore(i, j) ==
    \/ calls[i].tags.DateTimeOriginal < calls[j].tags.DateTimeOriginal
    \/ /\ calls[i].tags.DateTimeOriginal = calls[j].tags.DateTimeOriginal
       /\ StrLess(calls[i].tags.SubSecTimeOriginal, calls[j].tags.SubSecTimeOriginal)

\* The newest call has a subsecond field of exactly SubSecWidth digits and a
\* capture time after the one of every earlier call.  The calls are only
\* ever appended to, so this holding in every state orders every pair.
NewestCallOrdered ==
    LET n == Len(calls)
    IN  n > 0 =>
          /\ calls[n].file = listing[n]
          /\ Len(calls[n].tags.SubSecTimeOriginal) = SubSecWidth
          /\ calls[n].tags.SubSecTimeDigitized = calls[n].tags.SubSecTimeOriginal
          /\ \A i \in 1..(n - 1) : CaptureBefore(i, n)

\* C10 (as amended): in a directory of at most 1000 qualifying files the
\* capture times are in the strict order of the listing: the subsecond field
\* is written with exactly three digits, no two files get the same pair, and
\* ordering by datetime and then by the written subsecond field gives the
\* listing order.
C10_OrderedUpToCapacity ==
    Len(calls) <= SubSecCapacity => NewestCallOrdered

\* C10 as the specification states it: the same for any number of files.
C10_AsStated == NewestCallOrdered

\* C10 happens: the thousandth file of a directory has been given the
\* subsecond 999.
C10_Witness ==
    /\ Len(calls) = SubSecCapacity
    /\ calls[Len(calls)].tags.SubSecTimeOriginal = "999"
    /\ calls[1].tags.SubSecTimeOriginal = "000"

\* The image files of a directory: its qualifying entries.
ImageFilesIn(fs, dir) ==
    {g \in ChildNamesIn(fs, dir) : IsQualifyingIn(fs, dir, g)}

\* No two renames of the directory in hand went to the same name.
RenameTargetsDistinct ==
    \A i, j \in 1..Len(renames) : i # j => renames[i].new # renames[j].new

\* The loop of rename_images is through and the method is about to return.
RenameCompleted == pc = "rename" /\ file_idx > Len(listing)

\* C11: in frame-numbering mode, when rename_images has gone through a
\* directory without an error, no rename has overwritten another image file:
\* distinct qualifying files have been given distinct canonical names, and
\* the directory holds as many image files as it did before the renaming.
C11_NoRenameOverwrites ==
    (RenameCompleted /\ ~use_frame_names) =>
        /\ RenameTargetsDistinct
        /\ Cardinality(ImageFilesIn(nodes, CurDir))
              = Cardinality(ImageFilesIn(start_nodes, CurDir))

====
